---- MODULE Spec2Model ----
(***************************************************************************)
(* Task Manager API (src/main.py): a FastAPI application over one SQLite   *)
(* table "task", accessed through request-scoped SQLModel sessions.        *)
(*                                                                         *)
(* Values.  A Python string is a sequence of one-character strings.  An    *)
(* Optional value is NULL (None) or Some(v).  A request payload is a       *)
(* record over Fields whose entries are Unset (the key is absent from the  *)
(* JSON body) or Given(x) with x an Optional value (the key is present,    *)
(* possibly as null).                                                      *)
(***************************************************************************)
EXTENDS Integers, Sequences, FiniteSets, TLC

\* ---------------------------------------------------------------- bounds
\* Longest raw string a client sends as a title.
MaxStrLen == 3
\* Largest primary key the table hands out (INSERT is disabled beyond it).
MaxId == 2
\* Number of distinct readings of datetime.utcnow().
MaxClock == 2
\* Most rows the table holds in the runs that vary every field.
MaxRows == 1

\* ------------------------------------------------------------- constants
\* constr(min_length=1, max_length=200): the upper limit is scaled down to
\* 2 so that raw titles of MaxStrLen characters exceed it.
min_length == 1
max_length == 2
\* priority: Optional[int] = 3
default_priority == 3
\* limit: int = 100, offset: int = 0
default_limit == 100
default_offset == 0

\* ---------------------------------------------------------------- values
NULL == <<>>
Some(v) == <<v>>
Unset == <<>>
Given(x) == <<x>>

Fields == {"title", "description", "done", "priority", "due_date"}

\* Strings over an alphabet, up to a length.
Strings(chars, n) == UNION {[1..k -> chars] : k \in 0..n}

\* str.strip(), as applied by constr(strip_whitespace=True).
RECURSIVE LStrip(_)
LStrip(s) == IF s = <<>> THEN s
             ELSE IF Head(s) = " " THEN LStrip(Tail(s)) ELSE s

RECURSIVE RStrip(_)
RStrip(s) == IF s = <<>> THEN s
             ELSE IF s[Len(s)] = " " THEN RStrip(SubSeq(s, 1, Len(s) - 1)) ELSE s

Strip(s) == RStrip(LStrip(s))

\* Faulty variant: the length limits are checked on the raw string.
constr_ok_RawLength(s) == Len(s) >= min_length /\ Len(s) <= max_length

\* constr(strip_whitespace=True, min_length=1, max_length=200): the length
\* limits are checked on the stripped string.
constr_ok(s) == Len(Strip(s)) >= min_length /\ Len(Strip(s)) <= max_length

\* ----------------------------------------------------------------- state
VARIABLES
    table,      \* rows of the SQLite table "task" (committed state)
    resp,       \* the response to the last request served
    sessions    \* the requests in flight, one Session(engine) each

vars == <<table, resp, sessions>>

\* ------------------------------------------------------ the task table
\* Faulty variant: title and done nullable like the other columns.
NotNullOK_Nullable(row) == TRUE

\* Task(TaskBase, table=True).  A column declared without Optional (title,
\* done) is NOT NULL; description, priority and due_date are nullable.
NotNullOK(row) == row.title # NULL /\ row.done # NULL

\* Boolean columns are stored by SQLite as the integers 0 and 1.
ToRow(obj) ==
    [obj EXCEPT !.done = IF @ = NULL THEN NULL ELSE Some(IF @[1] THEN 1 ELSE 0)]

FromRow(row) ==
    [row EXCEPT !.done = IF @ = NULL THEN NULL ELSE Some(@[1] # 0)]

HasRow(t, id) == \E r \in t : r.id = id
RowOf(t, id) == CHOOSE r \in t : r.id = id

\* Faulty variant: every insert is given the id 1.
NextRowId_One(t) == 1

\* id: Optional[int] = Field(default=None, primary_key=True): an INTEGER
\* PRIMARY KEY without AUTOINCREMENT takes the largest rowid in use plus one.
NextRowId(t) ==
    IF t = {} THEN 1
    ELSE (CHOOSE m \in {r.id : r \in t} : \A r \in t : r.id <= m) + 1

\* session.add(db_task); session.commit(): INSERT of a new row.
InsertRow(t, obj) == t \cup {ToRow([obj EXCEPT !.id = NextRowId(t)])}

\* Faulty variant: the row is kept (a soft delete).
DeleteRow_Keep(t, id) == t

\* session.delete(task); session.commit(): DELETE FROM task WHERE id = ?.
DeleteRow(t, id) == {r \in t : r.id # id}

\* session.get(Task, task_id): the instance loaded from the row, or nothing.
session_get(t, id) == IF HasRow(t, id) THEN <<FromRow(RowOf(t, id))>> ELSE <<>>

\* ---------------------------------------------------------- validation
\* TaskCreate(TaskBase): title is required and is not Optional, done is a
\* bool; description, priority and due_date accept null.
TaskCreate_ok(p) ==
    /\ p.title # Unset
    /\ p.title[1] # NULL
    /\ constr_ok(p.title[1][1])
    /\ (p.done # Unset => p.done[1] # NULL)

\* Faulty variant: an omitted priority is left null.
TaskCreate_NullPriority(p) ==
    [title       |-> Some(Strip(p.title[1][1])),
     description |-> IF p.description = Unset THEN NULL ELSE p.description[1],
     done        |-> IF p.done = Unset THEN Some(FALSE) ELSE p.done[1],
     priority    |-> IF p.priority = Unset THEN NULL ELSE p.priority[1],
     due_date    |-> IF p.due_date = Unset THEN NULL ELSE p.due_date[1]]

\* The validated create payload, with the defaults of TaskBase.
TaskCreate(p) ==
    [title       |-> Some(Strip(p.title[1][1])),
     description |-> IF p.description = Unset THEN NULL ELSE p.description[1],
     done        |-> IF p.done = Unset THEN Some(FALSE) ELSE p.done[1],
     priority    |-> IF p.priority = Unset THEN Some(default_priority) ELSE p.priority[1],
     due_date    |-> IF p.due_date = Unset THEN NULL ELSE p.due_date[1]]

\* Task.from_orm(task): the new instance; id is not assigned yet and
\* created_at comes from default_factory=datetime.utcnow.
from_orm(task, now) ==
    [id          |-> 0,
     title       |-> task.title,
     description |-> task.description,
     done        |-> task.done,
     priority    |-> task.priority,
     due_date    |-> task.due_date,
     created_at  |-> now]

\* TaskUpdate(BaseModel): every field is Optional; a title that is given
\* and not null goes through the same constr.
TaskUpdate_ok(p) ==
    (p.title # Unset /\ p.title[1] # NULL) => constr_ok(p.title[1][1])

\* The validated update payload: the title is stored stripped.
TaskUpdate(p) ==
    [p EXCEPT !.title = IF @ # Unset /\ @[1] # NULL
                        THEN Given(Some(Strip(@[1][1]))) ELSE @]

\* task_in.dict(exclude_unset=True): the keys the client sent.
exclude_unset(p) == {f \in Fields : p[f] # Unset}

\* Faulty variant: task_in.dict() without exclude_unset, so that an absent
\* key overwrites the stored value with None.
setattrs_AllKeys(obj, p) ==
    [obj EXCEPT !.title       = IF p.title = Unset THEN NULL ELSE p.title[1],
                !.description = IF p.description = Unset THEN NULL ELSE p.description[1],
                !.done        = IF p.done = Unset THEN NULL ELSE p.done[1],
                !.priority    = IF p.priority = Unset THEN NULL ELSE p.priority[1],
                !.due_date    = IF p.due_date = Unset THEN NULL ELSE p.due_date[1]]

\* for key, value in task_data.items(): setattr(task, key, value)
setattrs(obj, p) ==
    LET S == exclude_unset(p) IN
    [obj EXCEPT !.title       = IF "title" \in S THEN p.title[1] ELSE @,
                !.description = IF "description" \in S THEN p.description[1] ELSE @,
                !.done        = IF "done" \in S THEN p.done[1] ELSE @,
                !.priority    = IF "priority" \in S THEN p.priority[1] ELSE @,
                !.due_date    = IF "due_date" \in S THEN p.due_date[1] ELSE @]

\* ------------------------------------------------ the unit of work: flush
\* The attributes whose value differs from the one loaded: only these are
\* written by the UPDATE statement that session.commit() flushes.
Changed(loaded, cur) == {f \in Fields : cur[f] # loaded[f]}

\* session.commit() of a loaded and modified instance.  No changed
\* attribute: no statement.  Otherwise UPDATE task SET <changed> WHERE
\* id = ?; no matching row raises StaleDataError, a NULL in a NOT NULL
\* column raises IntegrityError, and either leaves the table as it was.
FlushUpdate(t, loaded, cur) ==
    LET cols == Changed(loaded, cur) IN
    IF cols = {} THEN [err |-> "none", table |-> t]
    ELSE IF ~HasRow(t, cur.id) THEN [err |-> "StaleDataError", table |-> t]
    ELSE LET old == RowOf(t, cur.id)
             src == ToRow(cur)
             new == [old EXCEPT
                       !.title       = IF "title" \in cols THEN src.title ELSE @,
                       !.description = IF "description" \in cols THEN src.description ELSE @,
                       !.done        = IF "done" \in cols THEN src.done ELSE @,
                       !.priority    = IF "priority" \in cols THEN src.priority ELSE @,
                       !.due_date    = IF "due_date" \in cols THEN src.due_date ELSE @]
         IN IF NotNullOK(new)
            THEN [err |-> "none", table |-> (t \ {old}) \cup {new}]
            ELSE [err |-> "IntegrityError", table |-> t]

\* ------------------------------------------------------------ responses
Response(op, id, status, body) ==
    [op |-> op, task_id |-> id, status |-> status, body |-> body]

NoResponse == Response("none", 0, 0, <<>>)

\* ------------------------------------------- handlers, one request each
\* POST /tasks/
create_task(p, now) ==
    /\ IF ~TaskCreate_ok(p)
       THEN /\ resp' = Response("create", 0, 422, <<>>)
            /\ table' = table
       ELSE /\ NextRowId(table) <= MaxId
            /\ LET db_task == from_orm(TaskCreate(p), now)
                   id == NextRowId(table)
                   t2 == InsertRow(table, db_task)
               IN /\ table' = t2
                  /\ resp' = Response("create", id, 201, session_get(t2, id))
    /\ UNCHANGED sessions

\* GET /tasks/{task_id}
get_task(task_id) ==
    /\ LET task == session_get(table, task_id) IN
       IF task = <<>>
       THEN resp' = Response("get", task_id, 404, <<>>)
       ELSE resp' = Response("get", task_id, 200, task)
    /\ UNCHANGED <<table, sessions>>

\* PATCH /tasks/{task_id}
update_task(task_id, p) ==
    /\ IF ~TaskUpdate_ok(p)
       THEN /\ resp' = Response("update", task_id, 422, <<>>)
            /\ table' = table
       ELSE LET task == session_get(table, task_id) IN
            IF task = <<>>
            THEN /\ resp' = Response("update", task_id, 404, <<>>)
                 /\ table' = table
            ELSE LET cur == setattrs(task[1], TaskUpdate(p))
                     fl == FlushUpdate(table, task[1], cur)
                 IN IF fl.err # "none"
                    THEN /\ resp' = Response("update", task_id, 500, <<>>)
                         /\ table' = table
                    ELSE /\ table' = fl.table
                         /\ resp' = Response("update", task_id, 200,
                                             session_get(fl.table, task_id))
    /\ UNCHANGED sessions

\* DELETE /tasks/{task_id}
delete_task(task_id) ==
    /\ LET task == session_get(table, task_id) IN
       IF task = <<>>
       THEN /\ resp' = Response("delete", task_id, 404, <<>>)
            /\ table' = table
       ELSE /\ table' = DeleteRow(table, task_id)
            /\ resp' = Response("delete", task_id, 204, <<>>)
    /\ UNCHANGED sessions

\* --------------------------------------------------------- GET /tasks/
\* SQLite's LIKE folds the case of ASCII letters.
Lower(c) == IF c = "A" THEN "a" ELSE IF c = "B" THEN "b" ELSE c

\* string LIKE pattern: % matches any run of characters, _ any single
\* character, every other character itself up to ASCII case.
RECURSIVE Like(_, _)
Like(str, pat) ==
    IF pat = <<>> THEN str = <<>>
    ELSE IF Head(pat) = "%"
         THEN Like(str, Tail(pat)) \/ (str # <<>> /\ Like(Tail(str), pat))
    ELSE IF str = <<>> THEN FALSE
    ELSE IF Head(pat) = "_" THEN Like(Tail(str), Tail(pat))
    ELSE Lower(Head(str)) = Lower(Head(pat)) /\ Like(Tail(str), Tail(pat))

\* column.contains(q): column LIKE '%' || q || '%', with q unescaped; the
\* result is SQL's unknown ("N") when the column is NULL.
contains(col, q) ==
    IF col = NULL THEN "N"
    ELSE IF Like(col[1], <<"%">> \o q \o <<"%">>) THEN "T" ELSE "F"

\* a | b in SQL's three-valued logic.
Or3(a, b) ==
    IF a = "T" \/ b = "T" THEN "T"
    ELSE IF a = "N" \/ b = "N" THEN "N" ELSE "F"

\* The WHERE clauses list_tasks adds: `if q:` skips None and the empty
\* string; a row is selected when every clause present is true.
where(row, q, done, priority) ==
    /\ (q # NULL /\ q[1] # <<>>)
          => Or3(contains(row.title, q[1]), contains(row.description, q[1])) = "T"
    /\ done # NULL => row.done = Some(IF done[1] THEN 1 ELSE 0)
    /\ priority # NULL => (row.priority # NULL /\ row.priority[1] = priority[1])

\* Rows in the order of a table scan without ORDER BY: by rowid.
RECURSIVE ScanOrder(_)
ScanOrder(t) ==
    IF t = {} THEN <<>>
    ELSE LET first == CHOOSE r \in t : \A r2 \in t : r.id <= r2.id
         IN <<first>> \o ScanOrder(t \ {first})

\* query.offset(offset).limit(limit) on SQLite: a negative OFFSET counts
\* as zero and a negative LIMIT means no limit.
offset_limit(rows, offset, limit) ==
    LET from == (IF offset < 0 THEN 0 ELSE offset) + 1
        rest == SubSeq(rows, from, Len(rows))
    IN IF limit < 0 \/ limit >= Len(rest) THEN rest ELSE SubSeq(rest, 1, limit)

\* The rows list_tasks selects, in order.
select_tasks(t, q, done, priority, limit, offset) ==
    offset_limit(ScanOrder({r \in t : where(r, q, done, priority)}), offset, limit)

list_tasks(q, done, priority, limit, offset) ==
    /\ LET rows == select_tasks(table, q, done, priority, limit, offset) IN
       resp' = Response("list", 0, 200, [i \in 1..Len(rows) |-> FromRow(rows[i])])
    /\ UNCHANGED <<table, sessions>>

\* --------------------------------------------------- the clients' inputs
TitleChars == {"a", " "}
TitleStrings == Strings(TitleChars, MaxStrLen)
Clock == 1..MaxClock
\* Ids a client asks for: every id the table can hold (a row may be absent).
TaskIds == 1..MaxId

OptOf(vals) == {Unset, Given(NULL)} \cup {Given(Some(v)) : v \in vals}

\* Payloads that exercise the title: every raw string, null, or no title.
TitlePayloads ==
    [title       : OptOf(TitleStrings),
     description : {Unset},
     done        : {Unset},
     priority    : {Unset},
     due_date    : {Unset}]

\* Payloads that exercise every subset of the five fields.
FieldPayloads ==
    [title       : {Unset, Given(Some(<<"a", " ">>)), Given(Some(<<"a", "a">>))},
     description : OptOf({<<"a">>}),
     done        : {Unset, Given(Some(TRUE)), Given(Some(FALSE))},
     priority    : {Unset, Given(Some(1))},
     due_date    : {Unset, Given(Some(1))}]

\* ------------------------------------------------ sequential requests
Sessions == {"s1", "s2"}

NoPayload ==
    [title |-> Unset, description |-> Unset, done |-> Unset,
     priority |-> Unset, due_date |-> Unset]

\* A session: pc is the handler's position, loaded the instance as
\* session.get read it, cur the instance as the handler holds it, seq the
\* rank of its commit among all commits (0: none yet).
IdleSession ==
    [pc |-> "idle", op |-> "none", task_id |-> 0, payload |-> NoPayload,
     loaded |-> <<>>, cur |-> <<>>, status |-> 0, seq |-> 0]

Init ==
    /\ table = {}
    /\ resp = NoResponse
    /\ sessions = [s \in Sessions |-> IdleSession]

\* Requests served one at a time; the payloads exercise the title.
Next ==
    \/ \E p \in TitlePayloads, now \in Clock : create_task(p, now)
    \/ \E id \in TaskIds : get_task(id)
    \/ \E id \in TaskIds, p \in TitlePayloads : update_task(id, p)
    \/ \E id \in TaskIds : delete_task(id)

Spec == Init /\ [][Next]_vars

\* Requests served one at a time; the payloads exercise every field, the
\* table holds at most MaxRows rows and the clock reads one instant.
NextFields ==
    \/ /\ Cardinality(table) < MaxRows
       /\ \E p \in FieldPayloads : create_task(p, 1)
    \/ \E id \in TaskIds : get_task(id)
    \/ \E id \in TaskIds, p \in FieldPayloads : update_task(id, p)
    \/ \E id \in TaskIds : delete_task(id)

SpecFields == Init /\ [][NextFields]_vars

\* ------------------------------------------------ concurrent requests
\* Each request runs in a worker thread with a Session of its own (get_session),
\* so the statements of two handlers interleave; SQLite serialises the
\* commits.  update_task and delete_task are split at their database
\* round trips: session.get, session.commit, session.refresh.

NextSeq ==
    (CHOOSE m \in {sessions[s].seq : s \in Sessions} :
        \A s \in Sessions : sessions[s].seq <= m) + 1

Finish(s, status) ==
    sessions' = [sessions EXCEPT ![s].pc = "done", ![s].status = status]

\* update_task up to the commit: validation, session.get, the 404 check
\* and the setattr loop.
begin_update(s, task_id, p) ==
    /\ sessions[s].pc = "idle"
    /\ LET task == session_get(table, task_id)
           me == [sessions[s] EXCEPT !.op = "update", !.task_id = task_id] IN
       IF ~TaskUpdate_ok(p)
       THEN sessions' = [sessions EXCEPT ![s] = [me EXCEPT !.pc = "done", !.status = 422]]
       ELSE IF task = <<>>
       THEN sessions' = [sessions EXCEPT ![s] =
                [me EXCEPT !.pc = "done", !.status = 404, !.payload = TaskUpdate(p)]]
       ELSE sessions' = [sessions EXCEPT ![s] =
                [me EXCEPT !.pc = "loaded", !.payload = TaskUpdate(p), !.loaded = task,
                           !.cur = <<setattrs(task[1], TaskUpdate(p))>>]]
    /\ UNCHANGED <<table, resp>>

\* delete_task up to the commit: session.get, the 404 check, session.delete.
begin_delete(s, task_id) ==
    /\ sessions[s].pc = "idle"
    /\ LET task == session_get(table, task_id)
           me == [sessions[s] EXCEPT !.op = "delete", !.task_id = task_id] IN
       IF task = <<>>
       THEN sessions' = [sessions EXCEPT ![s] = [me EXCEPT !.pc = "done", !.status = 404]]
       ELSE sessions' = [sessions EXCEPT ![s] =
                [me EXCEPT !.pc = "loaded", !.loaded = task, !.cur = task]]
    /\ UNCHANGED <<table, resp>>

\* session.commit().  An update flushes its UPDATE statement; an error
\* ends the request with 500.  A delete flushes DELETE ... WHERE id = ?;
\* a DELETE that matches no row only logs a warning, the handler returns 204.
commit(s) ==
    /\ sessions[s].pc = "loaded"
    /\ IF sessions[s].op = "update"
       THEN LET fl == FlushUpdate(table, sessions[s].loaded[1], sessions[s].cur[1]) IN
            IF fl.err # "none"
            THEN /\ Finish(s, 500)
                 /\ table' = table
            ELSE /\ table' = fl.table
                 /\ sessions' = [sessions EXCEPT ![s].pc = "committed",
                                                 ![s].seq = NextSeq]
       ELSE /\ table' = DeleteRow(table, sessions[s].task_id)
            /\ sessions' = [sessions EXCEPT ![s].pc = "done", ![s].status = 204,
                                            ![s].seq = NextSeq]
    /\ UNCHANGED resp

\* session.refresh(task) and the response of update_task: the row is read
\* again; a row that is gone raises InvalidRequestError (500).
refresh(s) ==
    /\ sessions[s].pc = "committed"
    /\ LET task == session_get(table, sessions[s].task_id) IN
       IF task = <<>>
       THEN Finish(s, 500)
       ELSE sessions' = [sessions EXCEPT ![s].pc = "done", ![s].status = 200,
                                         ![s].cur = task]
    /\ UNCHANGED <<table, resp>>

ConcCreatePayloads ==
    [title       : {Given(Some(<<"a">>))},
     description : {Unset},
     done        : {Unset, Given(Some(TRUE))},
     priority    : {Unset},
     due_date    : {Unset}]

ConcPayloads ==
    [title       : {Unset, Given(Some(<<"a", "a">>))},
     description : {Unset},
     done        : {Unset, Given(Some(TRUE)), Given(Some(FALSE))},
     priority    : {Unset},
     due_date    : {Unset}]

NextConc ==
    \/ /\ Cardinality(table) < MaxRows
       /\ \E p \in ConcCreatePayloads : create_task(p, 1)
    \/ \E s \in Sessions, id \in TaskIds, p \in ConcPayloads : begin_update(s, id, p)
    \/ \E s \in Sessions, id \in TaskIds : begin_delete(s, id)
    \/ \E s \in Sessions : commit(s)
    \/ \E s \in Sessions : refresh(s)

SpecConc == Init /\ [][NextConc]_vars

\* Payloads and query parameters that exercise the list filters.
ListPayloads ==
    [title       : {Given(Some(<<"a">>)), Given(Some(<<"B">>))},
     description : {Unset, Given(Some(<<"a">>))},
     done        : {Unset, Given(Some(TRUE))},
     priority    : {Unset, Given(Some(1))},
     due_date    : {Unset}]

ListQ == {NULL, Some(<<>>), Some(<<"a">>), Some(<<"A">>), Some(<<"_">>)}
ListDone == {NULL, Some(TRUE), Some(FALSE)}
ListPriority == {NULL, Some(default_priority)}
ListLimit == {-1, 0, 1, default_limit}
ListOffset == {-1, default_offset, 1}

NextList ==
    \/ \E p \in ListPayloads : create_task(p, 1)
    \/ \E id \in TaskIds : delete_task(id)
    \/ \E q \in ListQ, d \in ListDone, pr \in ListPriority,
          l \in ListLimit, o \in ListOffset : list_tasks(q, d, pr, l, o)

SpecList == Init /\ [][NextList]_vars

\* ======================================================================
\* Properties of the sequential service
\* ======================================================================

\* Length of a raw string between its first and its last non-blank
\* character (0 when it has none).
TrimmedLen(s) ==
    LET ink == {i \in 1..Len(s) : s[i] # " "} IN
    IF ink = {} THEN 0
    ELSE (CHOOSE hi \in ink : \A i \in ink : i <= hi)
         - (CHOOSE lo \in ink : \A i \in ink : lo <= i) + 1

\* The payloads whose title is empty, blank, or too long once trimmed.
BadTitlePayloads ==
    {p \in TitlePayloads :
        /\ p.title # Unset
        /\ p.title[1] # NULL
        /\ (TrimmedLen(p.title[1][1]) = 0 \/ TrimmedLen(p.title[1][1]) > max_length)}

\* C1: a create request whose title is empty, blank, or longer than the
\* limit once trimmed is answered 422 and leaves the table exactly as it was.
C1_InvalidTitleRejected ==
    [][resp'.op = "create" =>
         \A p \in BadTitlePayloads, now \in Clock :
            create_task(p, now) => (resp'.status = 422 /\ table' = table)]_vars

\* A create request was refused while the table held a task.
C1_Witness == resp.op = "create" /\ resp.status = 422 /\ table # {}

\* C4: deleting a stored id answers 204 and removes the row; a second
\* delete of that id right after answers 404 and leaves the table as it
\* is; a get of that id right after the first delete answers 404.
C4_DeleteTwice ==
    [][\A id \in TaskIds :
         /\ (HasRow(table, id) /\ delete_task(id))
               => (resp'.status = 204 /\ ~HasRow(table', id)
                   /\ \A r \in table : r.id # id => r \in table')
         /\ (resp.op = "delete" /\ resp.status = 204 /\ resp.task_id = id
             /\ delete_task(id))
               => (resp'.status = 404 /\ table' = table)
         /\ (resp.op = "delete" /\ resp.status = 204 /\ resp.task_id = id
             /\ get_task(id))
               => resp'.status = 404]_vars

\* A delete was answered 404 for an id while another task is still stored.
C4_Witness ==
    /\ resp.op = "delete" /\ resp.status = 404
    /\ table # {} /\ ~HasRow(table, resp.task_id)

\* C7: stored ids are pairwise distinct, and a request never changes the
\* id or created_at of a task that exists before and after it: every row
\* survives with both values unless its own delete removes it.
C7_IdAndCreatedAtStable ==
    [][/\ \A r1, r2 \in table : r1.id = r2.id => r1 = r2
       /\ \A r1, r2 \in table' : r1.id = r2.id => r1 = r2
       /\ \A r \in table :
            /\ \A r2 \in table' : r2.id = r.id => r2.created_at = r.created_at
            /\ (resp'.op # "delete" \/ resp'.task_id # r.id)
                  => \E r2 \in table' : r2.id = r.id]_vars

\* Two tasks are stored and one of them has just been updated.
C7_Witness ==
    /\ Cardinality(table) = 2
    /\ resp.op = "update" /\ resp.status = 200
    /\ \E r1, r2 \in table : r1.created_at # r2.created_at

\* C8: every stored title is a string of 1 to max_length characters with
\* no blank at either end, also after an update that sends title as null.
C8_TitleInvariant ==
    \A r \in table :
        /\ r.title # NULL
        /\ Len(r.title[1]) >= 1 /\ Len(r.title[1]) <= max_length
        /\ r.title[1][1] # " " /\ r.title[1][Len(r.title[1])] # " "

\* An update of a stored task was refused by the storage layer (the only
\* such update sends title as null).
C8_Witness ==
    resp.op = "update" /\ resp.status = 500 /\ HasRow(table, resp.task_id)

\* A raw string without its leading and trailing blanks.
Trimmed(s) ==
    LET ink == {i \in 1..Len(s) : s[i] # " "} IN
    IF ink = {} THEN <<>>
    ELSE SubSeq(s, CHOOSE lo \in ink : \A i \in ink : lo <= i,
                   CHOOSE hi \in ink : \A i \in ink : i <= hi)

\* The create payloads that pass validation.
ValidFieldPayloads == {p \in FieldPayloads : TaskCreate_ok(p)}

\* C2: a valid create answers 201 with a task that has a server-assigned
\* id and creation time, the fields the payload gave and the defaults
\* done=false, priority=3, description=null, due_date=null for the ones
\* it omitted; a get of that id right after returns 200 and the same task.
C2_GetAfterCreate ==
    [][/\ resp'.op = "create" =>
            \A p \in ValidFieldPayloads :
               create_task(p, 1) =>
                  /\ resp'.status = 201 /\ Len(resp'.body) = 1
                  /\ LET b == resp'.body[1] IN
                     /\ b.id = resp'.task_id /\ b.id >= 1 /\ b.created_at = 1
                     /\ b.title = Some(Trimmed(p.title[1][1]))
                     /\ b.description = (IF p.description = Unset THEN NULL ELSE p.description[1])
                     /\ b.done = (IF p.done = Unset THEN Some(FALSE) ELSE p.done[1])
                     /\ b.priority = (IF p.priority = Unset THEN Some(3) ELSE p.priority[1])
                     /\ b.due_date = (IF p.due_date = Unset THEN NULL ELSE p.due_date[1])
       /\ (resp.op = "create" /\ resp.status = 201 /\ get_task(resp.task_id)) =>
               (resp'.status = 200 /\ resp'.body = resp.body)]_vars

\* A get returned a stored task that mixes given values and defaults.
C2_Witness ==
    /\ resp.op = "get" /\ resp.status = 200
    /\ resp.body[1].priority = Some(3)
    /\ resp.body[1].description = Some(<<"a">>)
    /\ resp.body[1].done = Some(TRUE)

\* C3: a successful update sets exactly the fields present in the payload
\* to the payload's (validated) values and leaves the other fields, id,
\* created_at and every other row unchanged.
C3_UpdateFrame ==
    [][(resp'.op = "update" /\ resp'.status = 200) =>
         \A p \in FieldPayloads :
            update_task(resp'.task_id, p) =>
               LET id == resp'.task_id IN
               /\ HasRow(table, id) /\ HasRow(table', id)
               /\ LET old == session_get(table, id)[1]
                      new == session_get(table', id)[1]
                  IN /\ new.title = (IF p.title = Unset THEN old.title
                                     ELSE Some(Trimmed(p.title[1][1])))
                     /\ \A f \in Fields \ {"title"} :
                           new[f] = (IF p[f] = Unset THEN old[f] ELSE p[f][1])
                     /\ new.id = old.id /\ new.created_at = old.created_at
                     /\ resp'.body = <<new>>
               /\ \A r \in table : r.id # id => r \in table'
               /\ Cardinality(table') = Cardinality(table)]_vars

\* An update succeeded on a task whose done was set while its priority
\* still is the default.
C3_Witness ==
    /\ resp.op = "update" /\ resp.status = 200
    /\ resp.body[1].done = Some(TRUE)
    /\ resp.body[1].priority = Some(3)
    /\ resp.body[1].title = Some(<<"a", "a">>)

\* q occurs in s as a run of consecutive characters, case and all.
IsSubstring(q, s) ==
    \E i \in 1..(Len(s) - Len(q) + 1) : SubSeq(s, i, i + Len(q) - 1) = q

\* The filters of a list request, as documented.
Matches(row, q, done, priority) ==
    /\ q # NULL => \/ IsSubstring(q[1], row.title[1])
                   \/ (row.description # NULL /\ IsSubstring(q[1], row.description[1]))
    /\ done # NULL => FromRow(row).done = done
    /\ priority # NULL => row.priority = priority

\* C5: with limit and offset covering the table, list_tasks returns
\* exactly the stored tasks that satisfy every filter present, q being a
\* substring of the title or of the description.
C5_ListFilters ==
    [][\A q \in ListQ, d \in ListDone, pr \in ListPriority :
         list_tasks(q, d, pr, default_limit, default_offset) =>
            /\ {resp'.body[i] : i \in 1..Len(resp'.body)}
                  = {FromRow(r) : r \in {x \in table : Matches(x, q, d, pr)}}
            /\ Len(resp'.body) = Cardinality({x \in table : Matches(x, q, d, pr)})]_vars

\* C6: for every limit and offset the service accepts, list_tasks returns
\* at most limit tasks (none when limit is below zero), namely the
\* selected rows that follow the first offset selected rows.
C6_LimitOffset ==
    [][\A q \in ListQ, d \in ListDone, pr \in ListPriority,
          l \in ListLimit, o \in ListOffset :
         list_tasks(q, d, pr, l, o) =>
            LET all == ScanOrder({r \in table : where(r, q, d, pr)})
                rest == SubSeq(all, (IF o < 0 THEN 0 ELSE o) + 1, Len(all))
                n == Len(resp'.body)
            IN /\ n <= (IF l < 0 THEN 0 ELSE l)
               /\ n <= Len(rest)
               /\ \A i \in 1..n : resp'.body[i] = FromRow(rest[i])
               /\ (n < l => n = Len(rest))]_vars

\* ======================================================================
\* Properties of concurrent requests
\* ======================================================================

\* C9: when two updates of the same task both succeed, every field both
\* payloads set holds the value of the one that committed last, and a
\* field only one of them set holds that one's value.
C9_LastWriterWins ==
    \A s1, s2 \in Sessions :
        ( /\ s1 # s2
          /\ sessions[s1].pc = "done" /\ sessions[s2].pc = "done"
          /\ sessions[s1].op = "update" /\ sessions[s2].op = "update"
          /\ sessions[s1].status = 200 /\ sessions[s2].status = 200
          /\ sessions[s1].task_id = sessions[s2].task_id
          /\ sessions[s1].seq < sessions[s2].seq
          /\ HasRow(table, sessions[s2].task_id) )
        => LET stored == session_get(table, sessions[s2].task_id)[1]
               first == sessions[s1].payload
               last == sessions[s2].payload
           IN \A f \in Fields :
                 /\ last[f] # Unset => stored[f] = last[f][1]
                 /\ (last[f] = Unset /\ first[f] # Unset) => stored[f] = first[f][1]

\* C10: an update or delete with a valid payload ends either in success
\* on a row that exists or in 404 on a row that is absent, whatever other
\* requests do between its lookup and its commit.
C10_SuccessOrNotFound ==
    [][\A s \in Sessions :
         (sessions[s].pc # "done" /\ sessions'[s].pc = "done") =>
            \/ /\ sessions'[s].status \in {200, 204}
               /\ HasRow(table, sessions'[s].task_id)
               /\ sessions'[s].op = "delete" => ~HasRow(table', sessions'[s].task_id)
            \/ /\ sessions'[s].status = 404
               /\ ~HasRow(table, sessions'[s].task_id)
               /\ table' = table]_vars

====
